---- MODULE Spec2Model ----
(***************************************************************************)
(* Model of ExpenseTracker (src/expense_tracker.py): the in-memory table   *)
(* self.df, the backing CSV file, and the menu operations of run().        *)
(*                                                                         *)
(* Units.  Amounts are floats in the program; here an amount is an integer *)
(* number of thousandths of a rupee (0.006 is 6, 150 is 150000).  A        *)
(* Timestamp is 2 * day-of-June-2025 + h, h = 0 for 00:00 and h = 1 for    *)
(* 18:30.  A percentage is an integer number of hundredths of a percent.   *)
(* NaN is the pandas missing value.                                        *)
(***************************************************************************)
EXTENDS Integers, Sequences, FiniteSets, TLC

VARIABLES pc, df, file, out

vars == <<pc, df, file, out>>

(* Bound: how many records may be appended on top of the seed. *)
MaxAppends == 2

(* ------------------------------------------------------------------ *)
(* Values                                                             *)
(* ------------------------------------------------------------------ *)

(* float('nan') as pandas stores a missing cell of an object column. *)
NaN == "<NaN>"

(* datetime.now() : the day of June 2025 on which the program runs. *)
Today == 16

Days == 10 .. Today

(* Timestamp.strftime('%Y-%m-%d') / to_csv(date_format='%Y-%m-%d'):     *)
(* the time of day is dropped.                                          *)
Strftime(ts) == "2025-06-" \o ToString(ts \div 2)

(* pd.to_datetime(s) for the strings that occur: a date, a date with a *)
(* time; anything else raises ValueError (ok = FALSE).                 *)
ToDatetime(s) ==
    IF \E d \in Days : s = Strftime(2 * d)
         THEN [ok |-> TRUE, val |-> 2 * (CHOOSE d \in Days : s = Strftime(2 * d))]
    ELSE IF \E d \in Days : s = Strftime(2 * d) \o " 18:30"
         THEN [ok |-> TRUE,
               val |-> 2 * (CHOOSE d \in Days : s = Strftime(2 * d) \o " 18:30") + 1]
    ELSE [ok |-> FALSE, val |-> 0]

(* str.strip() on the raw input lines that occur. *)
Strip(s) ==
    CASE s = " NA " -> "NA"
      [] s = "  "   -> ""
      [] s = " "    -> ""
      [] OTHER      -> s

(* float(s) on the raw amount strings that occur; ok = FALSE is ValueError. *)
ParseFloat(s) ==
    CASE s = "250"   -> [ok |-> TRUE, val |-> 250000]
      [] s = "0.006" -> [ok |-> TRUE, val |-> 6]
      [] s = "0"     -> [ok |-> TRUE, val |-> 0]
      [] s = "-5"    -> [ok |-> TRUE, val |-> -5000]
      [] OTHER       -> [ok |-> FALSE, val |-> 0]

(* The strings pd.read_csv turns into NaN (keep_default_na=True). *)
NAValues ==
    {"", "#N/A", "#N/A N/A", "#NA", "-1.#IND", "-1.#QNAN", "-NaN", "-nan",
     "1.#IND", "1.#QNAN", "<NA>", "N/A", "NA", "NULL", "NaN", "None",
     "n/a", "nan", "null"}

(* to_csv writes a missing cell as the empty string (na_rep=''). *)
CsvText(cell) == IF cell = NaN THEN "" ELSE cell

(* read_csv on one text cell of an object column. *)
ReadCell(text) == IF text \in NAValues THEN NaN ELSE text

(* DataFrame.to_csv(index=False, date_format='%Y-%m-%d'): the rows.      *)
(* An amount is written as repr(float), which read_csv parses back to   *)
(* the same float, so the cell is kept as the number.                   *)
ToCsv(d) ==
    [i \in 1 .. Len(d) |->
        [Date        |-> Strftime(d[i].Date),
         Category    |-> CsvText(d[i].Category),
         Amount      |-> d[i].Amount,
         Description |-> CsvText(d[i].Description)]]

(* pd.read_csv followed by pd.to_datetime on the Date column. *)
ReadCsv(rows) ==
    [i \in 1 .. Len(rows) |->
        [Date        |-> ToDatetime(rows[i].Date).val,
         Category    |-> ReadCell(rows[i].Category),
         Amount      |-> rows[i].Amount,
         Description |-> ReadCell(rows[i].Description)]]

(* create_sample_data: the DataFrame built from sample_data, Date parsed. *)
SampleData ==
    <<[Date |-> ToDatetime("2025-06-10").val, Category |-> "Food",
       Amount |-> 150000,  Description |-> "Pizza at Dominos"],
      [Date |-> ToDatetime("2025-06-11").val, Category |-> "Transport",
       Amount |-> 50000,   Description |-> "Rickshaw fare"],
      [Date |-> ToDatetime("2025-06-12").val, Category |-> "Rent",
       Amount |-> 5000000, Description |-> "June Rent"],
      [Date |-> ToDatetime("2025-06-12").val, Category |-> "Utilities",
       Amount |-> 200000,  Description |-> "Electricity Bill"],
      [Date |-> ToDatetime("2025-06-13").val, Category |-> "Food",
       Amount |-> 300000,  Description |-> "Grocery shopping"],
      [Date |-> ToDatetime("2025-06-14").val, Category |-> "Entertainment",
       Amount |-> 800000,  Description |-> "Movie tickets"],
      [Date |-> ToDatetime("2025-06-15").val, Category |-> "Transport",
       Amount |-> 75000,   Description |-> "Bus fare"]>>

(* ------------------------------------------------------------------ *)
(* The backing file                                                   *)
(* ------------------------------------------------------------------ *)

(* os.path.exists(csv_file) is false. *)
NoFile == [exists |-> FALSE, header |-> FALSE, rows |-> <<>>]

(* A file of zero bytes: opened for writing, nothing flushed. *)
EmptyFile == [exists |-> TRUE, header |-> FALSE, rows |-> <<>>]

FileOf(d) == [exists |-> TRUE, header |-> TRUE, rows |-> ToCsv(d)]

(* What to_csv can do: succeed; raise before the file is opened          *)
(* (permission, path is a directory); raise while writing (disk full),  *)
(* after open(..., 'w') has truncated the file.                         *)
SaveOutcomes == {"ok", "open_failed", "write_failed"}

(* save_data: the file after the call. *)
SaveData(f, d, outcome) ==
    CASE outcome = "ok"           -> FileOf(d)
      [] outcome = "open_failed"  -> f
      [] outcome = "write_failed" -> EmptyFile

(* save_data with the exception swallowed without a message. *)
SaveMsgsSilent(outcome) ==
    IF outcome = "ok" THEN <<"Data saved">> ELSE <<>>

(* save_data: what it prints; the exception is caught, nothing is raised. *)
SaveMsgs(outcome) ==
    IF outcome = "ok" THEN <<"Data saved">> ELSE <<"Error saving data">>

(* ------------------------------------------------------------------ *)
(* Arithmetic of the reports                                          *)
(* ------------------------------------------------------------------ *)

(* round(): n / d to the nearest integer, halves to even; n >= 0, d > 0. *)
RoundHalfEven(n, d) ==
    LET q == n \div d
        r == n % d
    IN  IF 2 * r < d THEN q
        ELSE IF 2 * r > d THEN q + 1
        ELSE IF q % 2 = 0 THEN q ELSE q + 1

(* .round(2) of an amount given in thousandths; the result in thousandths. *)
Round2(x) == 10 * RoundHalfEven(x, 10)

RECURSIVE SumUpTo(_, _)
SumUpTo(d, n) == IF n = 0 THEN 0 ELSE SumUpTo(d, n - 1) + d[n].Amount

(* df['Amount'].sum() *)
AmountSum(d) == SumUpTo(d, Len(d))

(* The rows of d in group c, in order. *)
Group(d, c) ==
    LET InGroup(r) == r.Category = c
    IN  SelectSeq(d, InGroup)

(* groupby('Category') : the group keys; rows with a missing key are     *)
(* dropped (dropna=True).                                                *)
GroupKeys(d) == {d[i].Category : i \in 1 .. Len(d)} \ {NaN}

(* The category names that occur, in Python string order; groupby sorts *)
(* its keys (sort=True).                                                *)
CategoryNames == <<"Entertainment", "Food", "NA", "Rent", "Transport", "Utilities">>

Rank(c) == CHOOSE i \in 1 .. Len(CategoryNames) : CategoryNames[i] = c

(* n * 10^k = q * d + r with 0 <= r < d, computed digit by digit so that *)
(* no intermediate value leaves the 32-bit integers.                      *)
RECURSIVE ScaledDiv(_, _, _)
ScaledDiv(n, d, k) ==
    IF k = 0 THEN [q |-> n \div d, r |-> n % d]
    ELSE LET p == ScaledDiv(n, d, k - 1)
         IN  [q |-> 10 * p.q + (10 * p.r) \div d, r |-> (10 * p.r) % d]

(* round(n / d * 10^k): to the nearest integer, halves to even. *)
RoundScaled(n, d, k) ==
    LET p == ScaledDiv(n, d, k)
    IN  IF 2 * p.r < d THEN p.q
        ELSE IF 2 * p.r > d THEN p.q + 1
        ELSE IF p.q % 2 = 0 THEN p.q ELSE p.q + 1

(* (Total_Amount / total_spending * 100).round(2), in hundredths of a percent. *)
Percentage(totalAmount, totalSpending) == RoundScaled(totalAmount, totalSpending, 4)

(* One row of category_stats: agg sum/count/mean rounded to 2 places,   *)
(* then the percentage of the rounded total in the unrounded grand total. *)
CategoryRow(d, c) ==
    LET g == Group(d, c)
    IN  [Category          |-> c,
         Total_Amount      |-> Round2(AmountSum(g)),
         Transaction_Count |-> Len(g),
         Average_Amount    |-> 10 * RoundHalfEven(AmountSum(g), 10 * Len(g)),
         Percentage        |-> Percentage(Round2(AmountSum(g)), AmountSum(d))]

(* sort_values with ascending=True: x has the smallest total. *)
MayComeFirstAscending(x, S) == \A y \in S : x.Total_Amount <= y.Total_Amount

(* sort_values('Total_Amount', ascending=False): x has the largest total. *)
MayComeFirst(x, S) == \A y \in S : x.Total_Amount >= y.Total_Amount

(* sort_values(..., ascending=False) with the default kind='quicksort',  *)
(* which is not stable: every order of S that is descending by total;    *)
(* rows with equal totals may come in either order.                      *)
RECURSIVE SortValues(_)
SortValues(S) ==
    IF S = {} THEN {<<>>}
    ELSE UNION {{<<x>> \o rest : rest \in SortValues(S \ {x})} :
                    x \in {y \in S : MayComeFirst(y, S)}}

(* category_analysis: the tables it may return. *)
CategoryStats(d) == SortValues({CategoryRow(d, c) : c \in GroupKeys(d)})

(* idxmax / idxmin: the first row holding the extreme amount. *)
IdxMax(d) ==
    CHOOSE i \in 1 .. Len(d) :
        /\ \A j \in 1 .. Len(d) : d[j].Amount <= d[i].Amount
        /\ \A j \in 1 .. (i - 1) : d[j].Amount < d[i].Amount

IdxMin(d) ==
    CHOOSE i \in 1 .. Len(d) :
        /\ \A j \in 1 .. Len(d) : d[j].Amount >= d[i].Amount
        /\ \A j \in 1 .. (i - 1) : d[j].Amount > d[i].Amount

(* display_total_overview: the figures it prints (average to 2 places). *)
TotalOverview(d) ==
    [total_amount       |-> AmountSum(d),
     total_transactions |-> Len(d),
     average_expense    |-> 10 * RoundHalfEven(AmountSum(d), 10 * Len(d)),
     highest            |-> d[IdxMax(d)],
     lowest             |-> d[IdxMin(d)]]

(* The range test with both ends excluded. *)
InRangeStrict(ts, start, end) == ts > start /\ ts < end

(* (Date >= start_dt) & (Date <= end_dt) *)
InRange(ts, start, end) == ts >= start /\ ts <= end

(* self.df.loc[mask] *)
FilterRows(d, start, end) ==
    LET Keep(r) == InRange(r.Date, start, end)
    IN  SelectSeq(d, Keep)

(* filter_by_date: one line of its category analysis (percentage to 1 place, *)
(* in tenths of a percent).                                              *)
FilterRow(d, c) ==
    [Category     |-> c,
     Total_Amount |-> AmountSum(Group(d, c)),
     Percentage   |-> RoundScaled(AmountSum(Group(d, c)), AmountSum(d), 3)]

(* ------------------------------------------------------------------ *)
(* Input lines typed at the prompts                                   *)
(* ------------------------------------------------------------------ *)

(* The lines of add requests that are accepted: date (empty for today,  *)
(* or one with a time of day), category, amount, description.            *)
GoodRequests ==
    {<<"", "Utilities", "250", "Top-up">>,
     <<"2025-06-12 18:30", "Utilities", "0.006", "Top-up">>,
     <<"2025-06-12 18:30", " NA ", "250", "Top-up">>}

(* Requests with an amount that is negative, zero or no number, a       *)
(* category or description of blanks, a date that is no date, and one   *)
(* with every field bad.                                                *)
BadRequests ==
    {<<"", "Utilities", "-5", "Top-up">>,
     <<"", "Utilities", "0", "Top-up">>,
     <<"", "Utilities", "abc", "Top-up">>,
     <<"", "  ", "250", "Top-up">>,
     <<"", "Utilities", "250", " ">>,
     <<"junk", "Utilities", "250", "Top-up">>,
     <<"junk", "  ", "abc", " ">>}

RawRequests   == GoodRequests \cup BadRequests
RawRangeDates == {"2025-06-12", "2025-06-12 18:30", "junk"}
RawBadChoices == {"0"}

(* What one operation left behind: which one ran, the lines typed, the   *)
(* messages printed, whether save_data ran and how it ended, and the     *)
(* table shown.                                                          *)
Out(op, args, msgs, save, result) ==
    [op |-> op, args |-> args, msgs |-> msgs, save |-> save, result |-> result]

(* ------------------------------------------------------------------ *)
(* Initial state: before ExpenseTracker() is constructed.  The backing *)
(* file is absent, or is the file an earlier run left.                 *)
(* ------------------------------------------------------------------ *)

Init ==
    /\ pc = "start"
    /\ df = <<>>
    /\ file \in {NoFile, FileOf(SampleData)}
    /\ out = Out("none", <<>>, <<>>, "none", <<>>)

(* The sample data built but never saved. *)
CreateSampleDataUnsaved(op) ==
    /\ df' = SampleData
    /\ pc' = "menu"
    /\ out' = Out(op, <<>>,
                  <<"not found. Creating sample data", "Created sample data">>,
                  "none", <<>>)
    /\ UNCHANGED file

(* create_sample_data, save included. *)
CreateSampleData(op) ==
    \E outcome \in SaveOutcomes :
        /\ df' = SampleData
        /\ file' = SaveData(file, SampleData, outcome)
        /\ pc' = "menu"
        /\ out' = Out(op, <<>>,
                      <<"not found. Creating sample data">> \o SaveMsgs(outcome)
                          \o <<"Created sample data">>,
                      outcome, <<>>)

(* load_data: read the file if it exists, else create the sample data;   *)
(* any exception (here: a file without a header line) ends the process.  *)
LoadData(op) ==
    IF file.exists
    THEN IF file.header
         THEN /\ df' = ReadCsv(file.rows)
              /\ pc' = "menu"
              /\ out' = Out(op, <<>>, <<"Successfully loaded">>, "none", <<>>)
              /\ UNCHANGED file
         ELSE /\ pc' = "exited"
              /\ out' = Out(op, <<>>, <<"Error loading data">>, "none", <<>>)
              /\ UNCHANGED <<df, file>>
    ELSE CreateSampleData(op)

(* __init__ *)
Construct ==
    /\ pc = "start"
    /\ LoadData("construct")

(* run: choice '7' *)
Reload ==
    /\ pc = "menu"
    /\ LoadData("reload")

(* ------------------------------------------------------------------ *)
(* add_new_expense                                                    *)
(* ------------------------------------------------------------------ *)

(* The amount check written as amount < 0. *)
AmountRejectedNegative(amount) == amount < 0

(* if amount <= 0 *)
AmountRejected(amount) == amount <= 0

(* An append that skips a row the table already holds. *)
ConcatUnique(d, row) ==
    IF \E i \in 1 .. Len(d) : d[i] = row THEN d ELSE Append(d, row)

(* pd.concat([self.df, new_row], ignore_index=True) *)
Concat(d, row) == Append(d, row)

(* The date string after "press Enter for today". *)
DateOrToday(rawDate) ==
    IF Strip(rawDate) = "" THEN Strftime(2 * Today) ELSE Strip(rawDate)

(* The dictionary new_expense. *)
NewExpense(rawDate, rawCategory, rawAmount, rawDescription) ==
    [Date        |-> ToDatetime(DateOrToday(rawDate)).val,
     Category    |-> Strip(rawCategory),
     Amount      |-> ParseFloat(Strip(rawAmount)).val,
     Description |-> Strip(rawDescription)]

(* Why the request ends before the table is touched, in the order the   *)
(* code decides it; "accepted" when it does not.                        *)
AddOutcome(rawDate, rawCategory, rawAmount, rawDescription) ==
    IF ~ParseFloat(Strip(rawAmount)).ok
        THEN "Invalid input"
    ELSE IF Strip(rawCategory) = "" \/ Strip(rawDescription) = ""
        THEN "Category and description cannot be empty."
    ELSE IF AmountRejected(ParseFloat(Strip(rawAmount)).val)
        THEN "Amount must be positive."
    ELSE IF ~ToDatetime(DateOrToday(rawDate)).ok
        THEN "Invalid input"
    ELSE "accepted"

(* run: choice '5' *)
AddNewExpense(rawDate, rawCategory, rawAmount, rawDescription) ==
    LET reply == AddOutcome(rawDate, rawCategory, rawAmount, rawDescription)
        args    == <<rawDate, rawCategory, rawAmount, rawDescription>>
        row     == NewExpense(rawDate, rawCategory, rawAmount, rawDescription)
    IN  /\ pc = "menu"
        /\ IF reply = "accepted"
           THEN /\ Len(df) < Len(SampleData) + MaxAppends
                /\ \E outcome \in SaveOutcomes :
                      /\ df' = Concat(df, row)
                      /\ file' = SaveData(file, Concat(df, row), outcome)
                      /\ out' = Out("add", args,
                                    SaveMsgs(outcome) \o <<"Successfully added expense">>,
                                    outcome, <<>>)
           ELSE /\ out' = Out("add", args, <<reply>>, "none", <<>>)
                /\ UNCHANGED <<df, file>>
        /\ UNCHANGED pc

(* ------------------------------------------------------------------ *)
(* The reports                                                        *)
(* ------------------------------------------------------------------ *)

(* run: choice '1' *)
DisplayTotalOverview ==
    /\ pc = "menu"
    /\ out' = IF Len(df) = 0
              THEN Out("overview", <<>>, <<"No expenses found.">>, "none", <<>>)
              ELSE Out("overview", <<>>, <<>>, "none", TotalOverview(df))
    /\ UNCHANGED <<pc, df, file>>

(* run: choice '2' *)
CategoryAnalysis ==
    /\ pc = "menu"
    /\ IF Len(df) = 0
       THEN out' = Out("category", <<>>, <<"No expenses found for analysis.">>,
                       "none", <<>>)
       ELSE \E stats \in CategoryStats(df) :
                out' = Out("category", <<>>, <<>>, "none", stats)
    /\ UNCHANGED <<pc, df, file>>

(* groupby('Category')['Amount'].sum().sort_values(ascending=False) *)
CategoryTotals(d) == SortValues({FilterRow(d, c) : c \in GroupKeys(d)})

(* run: choice '3'; the chart goes to expense_pie_chart.png *)
CreatePieChart ==
    /\ pc = "menu"
    /\ IF Len(df) = 0
       THEN out' = Out("pie", <<>>, <<"No data available for pie chart.">>,
                       "none", <<>>)
       ELSE \E totals \in CategoryTotals(df) :
                out' = Out("pie", <<>>, <<"Pie chart saved">>, "none", totals)
    /\ UNCHANGED <<pc, df, file>>

(* run: choice '4' *)
FilterByDate(rawStart, rawEnd) ==
    LET start    == ToDatetime(Strip(rawStart))
        end      == ToDatetime(Strip(rawEnd))
        filtered == FilterRows(df, start.val, end.val)
        args     == <<rawStart, rawEnd>>
    IN  /\ pc = "menu"
        /\ IF ~start.ok \/ ~end.ok
           THEN out' = Out("filter", args, <<"Invalid date format.">>, "none",
                           [rows |-> <<>>, stats |-> <<>>])
           ELSE IF Len(filtered) = 0
           THEN out' = Out("filter", args, <<"No expenses found between">>, "none",
                           [rows |-> <<>>, stats |-> <<>>])
           ELSE \E totals \in CategoryTotals(filtered) :
                    out' = Out("filter", args, <<"Found">>, "none",
                               [rows |-> filtered, stats |-> totals])
        /\ UNCHANGED <<pc, df, file>>

(* export_summary_report: one row of the report, with the first and last *)
(* date of the category.                                                 *)
SummaryRow(d, c) ==
    LET g == Group(d, c)
    IN  [Category          |-> c,
         Total_Amount      |-> Round2(AmountSum(g)),
         Transaction_Count |-> Len(g),
         Average_Amount    |-> 10 * RoundHalfEven(AmountSum(g), 10 * Len(g)),
         First_Date        |-> CHOOSE t \in {g[i].Date : i \in 1 .. Len(g)} :
                                   \A i \in 1 .. Len(g) : t <= g[i].Date,
         Last_Date         |-> CHOOSE t \in {g[i].Date : i \in 1 .. Len(g)} :
                                   \A i \in 1 .. Len(g) : t >= g[i].Date,
         Percentage        |-> Percentage(Round2(AmountSum(g)), AmountSum(d))]

(* The category rows of the report, in groupby's key order. *)
RECURSIVE SummaryRows(_, _)
SummaryRows(d, k) ==
    IF k = 0 THEN <<>>
    ELSE SummaryRows(d, k - 1) \o
         (IF CategoryNames[k] \in GroupKeys(d)
          THEN <<SummaryRow(d, CategoryNames[k])>> ELSE <<>>)

(* run: choice '6'; the report goes to summary_report.csv.  On an empty  *)
(* table the mean of no amounts is NaN and the percentages divide by 0,  *)
(* which pandas computes without raising.                                *)
ExportSummaryReport ==
    /\ pc = "menu"
    /\ out' = Out("export", <<>>, <<"Summary report exported">>, "none",
                  [rows  |-> SummaryRows(df, Len(CategoryNames)),
                   total |-> [Total_Amount      |-> AmountSum(df),
                              Transaction_Count |-> Len(df),
                              Percentage        |-> 10000]])
    /\ UNCHANGED <<pc, df, file>>

(* The table itself put newest first (a table in date order is reversed). *)
ViewAllExpensesInPlace ==
    /\ pc = "menu"
    /\ df' = [i \in 1 .. Len(df) |-> df[Len(df) + 1 - i]]
    /\ out' = Out("view", <<>>, <<>>, "none",
                  [count |-> Len(df), total |-> AmountSum(df)])
    /\ UNCHANGED <<pc, file>>

(* run: choice '8'; prints a copy of the table sorted by date. *)
ViewAllExpenses ==
    /\ pc = "menu"
    /\ out' = IF Len(df) = 0
              THEN Out("view", <<>>, <<"No expenses found.">>, "none", <<>>)
              ELSE Out("view", <<>>, <<>>, "none",
                       [count |-> Len(df), total |-> AmountSum(df)])
    /\ UNCHANGED <<pc, df, file>>

(* run: choice '9', or Ctrl-C at the prompt *)
Exit ==
    /\ pc = "menu"
    /\ pc' = "exited"
    /\ out' = Out("exit", <<>>, <<>>, "none", <<>>)
    /\ UNCHANGED <<df, file>>

(* run: any other choice *)
InvalidChoice(choice) ==
    /\ pc = "menu"
    /\ out' = Out("invalid", <<choice>>, <<"Invalid choice. Please select 1-9.">>,
                  "none", <<>>)
    /\ UNCHANGED <<pc, df, file>>

Next ==
    \/ Construct
    \/ DisplayTotalOverview
    \/ CategoryAnalysis
    \/ CreatePieChart
    \/ \E s \in RawRangeDates, e \in RawRangeDates : FilterByDate(s, e)
    \/ \E r \in RawRequests : AddNewExpense(r[1], r[2], r[3], r[4])
    \/ ExportSummaryReport
    \/ Reload
    \/ ViewAllExpenses
    \/ Exit
    \/ \E choice \in RawBadChoices : InvalidChoice(choice)

Spec == Init /\ [][Next]_vars

(* ------------------------------------------------------------------ *)
(* Properties                                                         *)
(* ------------------------------------------------------------------ *)

(* The request typed as args is one the contract rejects: the amount is *)
(* no number or is <= 0, the category or description is empty after     *)
(* trimming, or the date is no date.                                    *)
IsRejected(args) ==
    \/ ~ParseFloat(Strip(args[3])).ok
    \/ ParseFloat(Strip(args[3])).val <= 0
    \/ Strip(args[2]) = ""
    \/ Strip(args[4]) = ""
    \/ ~ToDatetime(DateOrToday(args[1])).ok

(* Two tables hold the same records in the same order, dates compared as *)
(* calendar dates (the normalisation of the file format).                *)
SameRecords(a, b) ==
    /\ Len(a) = Len(b)
    /\ \A i \in 1 .. Len(a) :
          /\ Strftime(a[i].Date) = Strftime(b[i].Date)
          /\ a[i].Category = b[i].Category
          /\ a[i].Amount = b[i].Amount
          /\ a[i].Description = b[i].Description

SaveFailed(o) == o.save \in {"open_failed", "write_failed"}

RECURSIVE SumField(_, _, _)
SumField(rows, n, isPct) ==
    IF n = 0 THEN 0
    ELSE SumField(rows, n - 1, isPct)
         + (IF isPct THEN rows[n].Percentage ELSE rows[n].Total_Amount)

Abs(x) == IF x < 0 THEN -x ELSE x

(* C1: an add request that is rejected (amount <= 0, category or        *)
(* description empty after trimming, amount or date not parseable)      *)
(* leaves the table exactly as it was and writes nothing to the file.   *)
C1_RejectedAddChangesNothing ==
    [][(out'.op = "add" /\ IsRejected(out'.args))
          => (df' = df /\ file' = file /\ out'.save = "none")]_vars

(* C1 witness: the request with amount -5 was rejected on a table that  *)
(* has grown beyond the seed.                                           *)
C1_Witness ==
    /\ out.op = "add"
    /\ out.args[3] = "-5"
    /\ out.msgs = <<"Amount must be positive.">>
    /\ Len(df) > Len(SampleData)

(* C2: an accepted add request puts exactly its record at the end of    *)
(* the table, keeps every earlier record in place, makes the table one  *)
(* longer even if an identical record is present, and runs save_data on *)
(* the whole table.                                                     *)
C2_AppendAddsOneAtEnd ==
    [][(out'.op = "add" /\ ~IsRejected(out'.args))
          => /\ Len(df') = Len(df) + 1
             /\ \A i \in 1 .. Len(df) : df'[i] = df[i]
             /\ df'[Len(df')] =
                  NewExpense(out'.args[1], out'.args[2], out'.args[3], out'.args[4])
             /\ out'.save \in SaveOutcomes
             /\ (out'.save = "ok" => file' = FileOf(df'))]_vars

(* C2 witness: a record was appended that equals the one before it.     *)
C2_Witness ==
    /\ out.op = "add"
    /\ ~IsRejected(out.args)
    /\ Len(df) = Len(SampleData) + 2
    /\ df[Len(df)] = df[Len(df) - 1]

(* C3: after an append whose save succeeded, loading the file gives the *)
(* records of the table, in order, up to date and amount formatting.    *)
C3_RoundTrip ==
    (out.op = "add" /\ out.save = "ok") => SameRecords(ReadCsv(file.rows), df)

(* C4 as stated: a load that finds no file makes the table the 7-record *)
(* seed and has the seed in the file when it returns.                   *)
C4_SeedAlwaysWritten ==
    [][(~file.exists /\ out'.op \in {"construct", "reload"})
          => /\ [i \in 1 .. Len(df') |-> df'[i].Amount]
                  = <<150000, 50000, 5000000, 200000, 300000, 800000, 75000>>
             /\ file' = FileOf(df')]_vars

(* C4: a load that finds no file makes the table the 7-record seed      *)
(* (amounts 150, 50, 5000, 200, 300, 800, 75) and runs save_data before *)
(* the menu is reached; the seed is in the file if that save succeeded. *)
C4_SeedSavedUnlessSaveFails ==
    [][(~file.exists /\ out'.op \in {"construct", "reload"})
          => /\ [i \in 1 .. Len(df') |-> df'[i].Amount]
                  = <<150000, 50000, 5000000, 200000, 300000, 800000, 75000>>
             /\ pc' = "menu"
             /\ out'.save \in SaveOutcomes
             /\ (out'.save = "ok" => file' = FileOf(df'))
             /\ (SaveFailed(out') => file' \in {file, EmptyFile})]_vars

(* C4 witness: the menu is reached after a load that created and saved  *)
(* the seed.                                                            *)
C4_Witness ==
    /\ pc = "menu"
    /\ out.op = "construct"
    /\ out.save = "ok"
    /\ Len(df) = 7
    /\ file = FileOf(df)

C6_OnlyAddMutates ==
    [][(pc = "menu" /\ out'.op # "add") => df' = df]_vars

(* C6: after the initial load every operation but add and reload leaves *)
(* the table unchanged; reload replaces it by the file's records (the   *)
(* seed if there is no file).                                           *)
C6_OnlyAddAndReloadMutate ==
    [][pc = "menu"
          => /\ out'.op \notin {"add", "reload"} => df' = df
             /\ (out'.op = "reload" /\ pc' = "menu")
                   => df' = IF file.exists THEN ReadCsv(file.rows) ELSE SampleData]_vars

(* C6 witness: the table was listed after a record had been appended.   *)
C6_Witness ==
    /\ out.op = "view"
    /\ Len(df) > Len(SampleData)

(* One row per category string of the table, each with the rounded sum  *)
(* of the amounts of exactly that category, largest total first.        *)
OneRowPerCategoryDescending(rows) ==
    /\ {rows[i].Category : i \in 1 .. Len(rows)}
          = {df[i].Category : i \in 1 .. Len(df)} \ {NaN}
    /\ \A i, j \in 1 .. Len(rows) : rows[i].Category = rows[j].Category => i = j
    /\ \A i \in 1 .. Len(rows) :
          rows[i].Total_Amount
             = Round2(AmountSum(Group(df, rows[i].Category)))
    /\ \A i, j \in 1 .. Len(rows) :
          i < j => rows[i].Total_Amount >= rows[j].Total_Amount

(* C7 as stated: one row per category, largest total first, equal       *)
(* totals in ascending order of category name.                          *)
C7_TiesByName ==
    (out.op = "category" /\ Len(df) > 0)
        => /\ OneRowPerCategoryDescending(out.result)
           /\ \A i, j \in 1 .. Len(out.result) :
                 (i < j /\ out.result[i].Total_Amount = out.result[j].Total_Amount)
                    => Rank(out.result[i].Category) < Rank(out.result[j].Category)

(* C7: category_analysis on a non-empty table returns one row per       *)
(* distinct category string (exact match), ordered by rounded total     *)
(* descending; the order of equal totals is not determined.             *)
C7_DescendingByTotal ==
    (out.op = "category" /\ Len(df) > 0)
        => OneRowPerCategoryDescending(out.result)

(* C7 witness: two categories with equal totals, the later name first.  *)
C7_Witness ==
    /\ out.op = "category"
    /\ \E i \in 1 .. (Len(out.result) - 1) :
          /\ out.result[i].Total_Amount = out.result[i + 1].Total_Amount
          /\ out.result[i].Category = "Utilities"
          /\ out.result[i + 1].Category = "Food"

(* C8: on a non-empty table the per-category totals of                  *)
(* category_analysis add up to the total of all amounts, within half a  *)
(* hundredth per category.                                              *)
C8_CategoryTotalsSumToTotal ==
    (out.op = "category" /\ Len(df) > 0)
        => Abs(SumField(out.result, Len(out.result), FALSE)
                 - TotalOverview(df).total_amount) <= 5 * Len(out.result)

(* The records at the places whose date lies in [start, end], in order. *)
ExactlyInRange(rows, start, end) ==
    LET S == {i \in 1 .. Len(df) : start <= df[i].Date /\ df[i].Date <= end}
    IN  /\ Len(rows) = Cardinality(S)
        /\ \A i \in S : rows[Cardinality({j \in S : j <= i})] = df[i]

C10_PercentagesSumTo100 ==
    (out.op = "category" /\ Len(df) > 0
                         /\ \A i \in 1 .. Len(df) : df[i].Amount > 0)
        => /\ \A i \in 1 .. Len(out.result) :
                 out.result[i].Percentage >= 0 /\ out.result[i].Percentage <= 10000
           /\ Abs(SumField(out.result, Len(out.result), TRUE) - 10000)
                 <= Len(out.result)

====
